---- MODULE Spec2Model ----
(***************************************************************************)
(* HR Recruiting Assistant: the JSON-RPC helpers, the endpoint resolver,   *)
(* the login / search / save tools of the four agent packages (app/,       *)
(* main.py, hr_assistant/, hr_recruiting_assistant/) and the recruiting    *)
(* workflow the app/ agent is instructed to follow.                        *)
(*                                                                         *)
(* JSON values are records of one fixed shape.  A member that is missing   *)
(* holds ABSENT, a member that is JSON null holds NULL, the booleans are   *)
(* the strings "true" and "false".  Field `items` holds the elements of a  *)
(* JSON array (and the `candidates` member of the app/ search output).     *)
(***************************************************************************)
EXTENDS Naturals, Integers, Sequences, FiniteSets, TLC

VARIABLES
    wfState,        \* app/: position of the workflow run in the agent's instructions
    session,        \* app/: token captured from a successful login, or ABSENT
    candidates,     \* app/: candidates returned by the search tool
    outcomes,       \* app/: one save outcome per candidate attempted so far
    foundCount,     \* app/: number of candidates found
    savedCount,     \* app/: number of candidates saved so far
    topLevelError,  \* app/: error that ended the run, or NULL
    cache,          \* main.py: lru_cache of resolve_url, agent name -> coroutine state
    tasks,          \* main.py: the tool calls in progress
    loggedIn,       \* main.py: whether some login_user call has returned success
    authToken,      \* hr_assistant/: tool_context.state["auth_token"], or ABSENT
    sent,           \* every package: the requests sent so far, in order
    calls,          \* every package: number of tool calls made so far
    lastCall,       \* every package: the last tool call that returned or raised
    registryEnv,    \* main.py: the environment variable A2A_REGISTRY_URL, or ABSENT
    log             \* main.py: the lines make_rpc_call has written to the log

vars == <<wfState, session, candidates, outcomes, foundCount, savedCount,
          topLevelError, cache, tasks, loggedIn, authToken, sent, calls, lastCall,
          registryEnv, log>>

appVars == <<wfState, session, candidates, outcomes, foundCount, savedCount,
             topLevelError>>

-----------------------------------------------------------------------------
(* Bounds *)

\* longest candidate list the search service returns
MaxCand == 3

\* most tool calls made in one process
MaxCalls == 4

\* most tool calls in progress at once in main.py
MaxTasks == 2

-----------------------------------------------------------------------------
(* JSON values *)

ABSENT == "ABSENT"

NULL == "NULL"

Obj ==
    [t |-> "obj", success |-> ABSENT, token |-> ABSENT, error |-> ABSENT,
     status |-> ABSENT, name |-> ABSENT, url |-> ABSENT, message |-> ABSENT,
     items |-> <<>>]

Null == [Obj EXCEPT !.t = "null"]

List(xs) == [Obj EXCEPT !.t = "list", !.items = xs]

\* a string value
Str(x) == [Obj EXCEPT !.t = "str", !.message = x]

IsDict(v) == v.t = "obj"

IsList(v) == v.t = "list"

\* dict.get(key, default)
Get(v, key, default) == IF v[key] = ABSENT THEN default ELSE v[key]

\* key in dict
Has(v, key) == v[key] # ABSENT

\* Python truthiness of a member value: missing, null, false and "" are falsy
Truthy(x) == x \notin {ABSENT, NULL, "false", ""}

-----------------------------------------------------------------------------
(* What the remote services can answer *)

Tokens == {"", "tok1", "tok2"}

LoginResults ==
    { [Obj EXCEPT !.success = s, !.token = k, !.error = e] :
        s \in {ABSENT, "true", "false"},
        k \in {ABSENT} \cup Tokens,
        e \in {ABSENT, NULL, "bad credentials"} }
    \cup {Null, List(<<>>)}

\* element i of a search result: a well-formed candidate, a dict that is
\* not a candidate, or something that is not a dict
CandName(i) == <<"c1", "c2", "c3", "c4", "c5">>[i]

ElemChoices(i) == {CandName(i), "baddict", "nondict"}

RECURSIVE ListsOfLen(_)
ListsOfLen(n) ==
    IF n = 0 THEN {<<>>}
    ELSE { Append(xs, e) : xs \in ListsOfLen(n - 1), e \in ElemChoices(n) }

SearchResults ==
    { List(xs) : xs \in UNION { ListsOfLen(n) : n \in 0..MaxCand } }
    \cup {Null, Obj} \cup { [Obj EXCEPT !.error = e] : e \in {NULL, "search backend down"} }

SaveResults ==
    { [Obj EXCEPT !.status = s, !.error = e] :
        s \in {ABSENT, "saved", "pending"},
        e \in {ABSENT, NULL, "duplicate record"} }
    \cup {Null, List(<<>>)}

AgentCards ==
    { [Obj EXCEPT !.url = u] : u \in {ABSENT, "http://svc/a2a"} }
    \cup {Null}

ResultsOf(method) ==
    CASE method = "login" -> LoginResults
      [] method = "search_candidates" -> SearchResults
      [] method = "create_record" -> SaveResults
      [] method = "get_agent" -> AgentCards

\* one HTTP exchange: no answer in time, no connection, a non-2xx status, a
\* body that is not a JSON object, or a JSON object with or without the
\* members `error` and `result` (no helper reads `result` when `error` is
\* there, so one result value stands for all of them in that case)
Exchanges(method) ==
    { [kind |-> k, hasError |-> FALSE, hasResult |-> FALSE, result |-> Null] :
        k \in {"timeout", "neterr", "status", "badjson"} }
    \cup { [kind |-> "json", hasError |-> e, hasResult |-> r, result |-> Null] :
        e \in BOOLEAN, r \in BOOLEAN }
    \cup { [kind |-> "json", hasError |-> FALSE, hasResult |-> TRUE, result |-> r] :
        r \in ResultsOf(method) }

\* main.py hands a result list on without reading its elements: there one
\* list of well-formed candidates of each length stands for all lists
PlainSearchExchanges ==
    { x \in Exchanges("search_candidates") :
        \A i \in 1..Len(x.result.items) : x.result.items[i] = CandName(i) }

\* main.py hands a login result on without reading it: there one token
\* and one error message stand for all of them
PlainLoginExchanges ==
    { x \in Exchanges("login") :
        \/ ~IsDict(x.result)
        \/ /\ x.result.token \in {ABSENT, "tok1"}
           /\ x.result.error = (IF x.result.success = "false" THEN "bad credentials"
                                                              ELSE ABSENT) }

MainExchanges(method) ==
    CASE method = "search_candidates" -> PlainSearchExchanges
      [] method = "login" -> PlainLoginExchanges
      [] OTHER -> Exchanges(method)

NoExchange == [kind |-> "none", hasError |-> FALSE, hasResult |-> FALSE, result |-> Null]

-----------------------------------------------------------------------------
(* Outcome of a Python call: a returned value or a raised exception *)

Return(v) == [raised |-> FALSE, exc |-> "", val |-> v]

Raise(e) == [raised |-> TRUE, exc |-> e, val |-> Null]

\* a request on the wire; `about` is the name asked of the registry
Request(to, method, about) == [to |-> to, method |-> method, about |-> about]

-----------------------------------------------------------------------------
(* JSON-RPC helpers *)

\* main.py and hr_assistant/agent.py: raises on every failure
make_rpc_call(x) ==
    CASE x.kind = "timeout" -> Raise("TimeoutError")
      [] x.kind = "neterr" -> Raise("ConnectionError")
      [] x.kind = "status" -> Raise("Exception")
      [] x.kind = "badjson" -> Raise("ValueError")
      [] x.kind = "json" /\ x.hasError -> Raise("RuntimeError")
      [] x.kind = "json" /\ ~x.hasError /\ x.hasResult -> Return(x.result)
      [] x.kind = "json" /\ ~x.hasError /\ ~x.hasResult -> Raise("ValueError")

a2a_call_Mut(x) ==
    IF x.kind = "json" /\ x.hasResult
    THEN x.result
    ELSE [Obj EXCEPT !.error = "A2A error"]

\* app/tools.py and hr_assistant/tools.py: returns {"error": ...} on every failure
a2a_call(x) ==
    CASE x.kind = "timeout" -> [Obj EXCEPT !.error = "Request timed out"]
      [] x.kind = "neterr" -> [Obj EXCEPT !.error = "Cannot connect to service"]
      [] x.kind = "status" -> [Obj EXCEPT !.error = "HTTP error from target service"]
      [] x.kind = "badjson" -> [Obj EXCEPT !.error = "An unexpected error occurred"]
      [] x.kind = "json" /\ x.hasError -> [Obj EXCEPT !.error = "A2A error"]
      [] x.kind = "json" /\ ~x.hasError /\ x.hasResult -> x.result
      [] x.kind = "json" /\ ~x.hasError /\ ~x.hasResult ->
            [Obj EXCEPT !.error = "Invalid JSON-RPC response structure"]

\* hr_recruiting_assistant/tools.py: data.get("result") when there is no error
json_rpc(x) ==
    CASE x.kind = "timeout" -> Raise("Timeout")
      [] x.kind = "neterr" -> Raise("ConnectionError")
      [] x.kind = "status" -> Raise("HTTPError")
      [] x.kind = "badjson" -> Raise("ValueError")
      [] x.kind = "json" /\ x.hasError -> Raise("RuntimeError")
      [] x.kind = "json" /\ ~x.hasError ->
            Return(IF x.hasResult THEN x.result ELSE Null)

-----------------------------------------------------------------------------
(* app/tools.py: the three tools of the app/ agent *)

authenticate_user(result) ==
    IF IsDict(result) /\ ~Has(result, "error")
    THEN IF result.success = "true" /\ Has(result, "token")
         THEN [Obj EXCEPT !.success = "true", !.token = result.token, !.error = NULL]
         ELSE [Obj EXCEPT !.success = "false", !.token = NULL,
                          !.error = Get(result, "error", "Authentication failed")]
    ELSE [Obj EXCEPT !.success = "false", !.token = NULL,
                     !.error = IF IsDict(result)
                               THEN Get(result, "error", "Failed to call authentication service")
                               ELSE "Unexpected response from auth service"]

\* the elements of xs that are dicts, in order
DictsOf_Mut(xs) == xs

RECURSIVE DictsOf(_)
DictsOf(xs) ==
    IF xs = <<>> THEN <<>>
    ELSE IF Head(xs) = "nondict" THEN DictsOf(Tail(xs))
         ELSE <<Head(xs)>> \o DictsOf(Tail(xs))

\* CandidateSchema.model_validate raises on a dict that is not a candidate
ValidationRaises(xs) == \E i \in 1..Len(xs) : xs[i] = "baddict"

find_candidates(result) ==
    IF IsList(result)
    THEN IF ValidationRaises(DictsOf(result.items))
         THEN [Obj EXCEPT !.items = <<>>, !.error = "Invalid candidate data received"]
         ELSE [Obj EXCEPT !.items = DictsOf(result.items), !.error = NULL]
    ELSE IF IsDict(result) /\ Has(result, "error")
         THEN [Obj EXCEPT !.items = <<>>,
                          !.error = Get(result, "error", "Failed to call search service")]
         ELSE [Obj EXCEPT !.items = <<>>,
                          !.error = "Invalid or unexpected response from search service"]

store_candidate(name, result) ==
    IF IsDict(result) /\ ~Has(result, "error")
    THEN IF result.status = "saved"
         THEN [Obj EXCEPT !.status = "saved", !.name = Get(result, "name", NULL),
                          !.error = NULL]
         ELSE [Obj EXCEPT !.status = "error", !.name = name,
                          !.error = Get(result, "error", "Save operation failed")]
    ELSE [Obj EXCEPT !.status = "error", !.name = name,
                     !.error = IF IsDict(result)
                               THEN Get(result, "error", "Failed to call database service")
                               ELSE "Unexpected response from db service"]

-----------------------------------------------------------------------------
(* State of the resolver cache and of the tool calls in progress *)

AgentNames == {"auth_agent", "webservice_agent", "dbservice_agent"}

\* an lru_cache entry of resolve_url: the coroutine object the first call
\* created ("absent" before that), and the address it gave its awaiter
NotCached == [co |-> "absent", url |-> ABSENT]

Idle == [pc |-> "idle", tool |-> "",
         args |-> [name |-> "", title |-> "", skills |-> "", username |-> "", password |-> ""],
         reg |-> NoExchange, url |-> ABSENT]

-----------------------------------------------------------------------------
(* app/agent.py: the workflow of AGENT_UI_INSTRUCTIONS over the app/ tools *)

AUTH_AGENT_URL == "auth_agent"

WEBSERVICE_AGENT_URL == "webservice_agent"

DBSERVICE_AGENT_URL == "dbservice_agent"

\* the values the environment can give A2A_REGISTRY_URL: unset, or an address
RegistryEnvs == {ABSENT, "http://registry.example/a2a"}

\* os.getenv("A2A_REGISTRY_URL", default)
REGISTRY_URL ==
    IF registryEnv = ABSENT THEN "http://a2a_registry:8000/a2a" ELSE registryEnv

\* the arguments of a tool call; a member the tool does not take holds ""
Args(name, title, skills) ==
    [name |-> name, title |-> title, skills |-> skills, username |-> "", password |-> ""]

\* login_user(username, password)
LoginArgs(username, password) ==
    [Args("", "", "") EXCEPT !.username = username, !.password = password]

NoArgs == Args("", "", "")

\* a finished tool call: its arguments, the lru_cache entry resolve_url
\* found for the name when the tool called it, what resolve_url gave ("n/a",
\* "RAISED" or the address), the exchange with the registry and the one with
\* the service (NoExchange when no request was sent) and what the tool
\* returned or raised
Call(tool, args, cached, resolved, x, ret) ==
    [tool |-> tool, args |-> args, cached |-> cached, resolved |-> resolved,
     reg |-> NoExchange, exch |-> x, ret |-> ret]

NoCall == Call("none", NoArgs, NotCached, "n/a", NoExchange, Return(Null))

\* one entry of the final summary for a save_candidate_record result
SaveOutcome(ref, ret) ==
    [candidateRef |-> ref,
     status |-> IF ret.status = "saved" THEN "Saved" ELSE "Failed",
     errorDetail |-> ret.error]

CountsAsSaved_Mut(ret) == TRUE

\* whether a save result counts as successfully saved
CountsAsSaved(ret) == ret.status = "saved"

NextIndex_Mut == IF outcomes = <<>> THEN Len(candidates) ELSE Len(outcomes)

\* the candidate the save loop has come to
NextIndex == Len(outcomes) + 1

a2a_posts_Mut(req, x) ==
    IF x.kind \in {"timeout", "neterr"} THEN <<req, req>> ELSE <<req>>

\* the requests one a2a_call posts: client.post is awaited once, and no
\* outcome of it leads back to another post
a2a_posts(req, x) == <<req>>

a2a_ends_Mut(x) == x.kind # "timeout"

\* whether a2a_call comes back to its caller: the client is created with
\* timeout=20.0, so a service that does not answer ends the call with
\* TimeoutException, which a2a_call catches
a2a_ends(x) == TRUE

\* steps 1-3: the user agrees and gives username and password
Start ==
    /\ wfState = "Init"
    /\ wfState' = "Authenticating"
    /\ UNCHANGED <<session, candidates, outcomes, foundCount, savedCount,
                   topLevelError, cache, tasks, loggedIn, authToken, sent, calls, lastCall,
                   registryEnv, log>>

LoginSucceeded_Mut(ret) == ret.success # ABSENT

\* whether the workflow goes on after a login result (step 5)
LoginSucceeded(ret) == ret.success = "true"

\* steps 4-5: call login_user; on failure report it and stop
Authenticate ==
    /\ wfState = "Authenticating"
    /\ \E x \in Exchanges("login") :
         LET ret == authenticate_user(a2a_call(x)) IN
         /\ sent' = sent \o a2a_posts(Request(AUTH_AGENT_URL, "login", ""), x)
         /\ IF ~a2a_ends(x)
            THEN /\ wfState' = "Waiting"
                 /\ UNCHANGED <<lastCall, session, topLevelError>>
            ELSE /\ lastCall' = Call("authenticate_user", NoArgs, NotCached, "n/a", x,
                                     Return(ret))
                 /\ IF LoginSucceeded(ret)
                    THEN /\ wfState' = "Authenticated"
                         /\ session' = ret.token
                         /\ UNCHANGED topLevelError
                    ELSE /\ wfState' = "AuthFailed"
                         /\ topLevelError' = IF ret.error = NULL
                                             THEN "Authentication failed"
                                             ELSE ret.error
                         /\ UNCHANGED session
    /\ UNCHANGED <<candidates, outcomes, foundCount, savedCount, cache, tasks,
                   loggedIn, authToken, calls, registryEnv, log>>

\* steps 6-7: the user gives job title and skills
BeginSearch ==
    /\ wfState = "Authenticated"
    /\ wfState' = "Searching"
    /\ UNCHANGED <<session, candidates, outcomes, foundCount, savedCount,
                   topLevelError, cache, tasks, loggedIn, authToken, sent, calls, lastCall,
                   registryEnv, log>>

\* steps 8-9: call search_for_candidates; stop on failure or on no candidates
Search ==
    /\ wfState = "Searching"
    /\ \E x \in Exchanges("search_candidates") :
         LET ret == find_candidates(a2a_call(x)) IN
         /\ sent' = sent \o a2a_posts(Request(WEBSERVICE_AGENT_URL, "search_candidates", ""), x)
         /\ IF ~a2a_ends(x)
            THEN /\ wfState' = "Waiting"
                 /\ UNCHANGED <<lastCall, candidates, foundCount, topLevelError>>
            ELSE /\ lastCall' = Call("find_candidates", NoArgs, NotCached, "n/a", x,
                                     Return(ret))
                 /\ IF ret.error # NULL
                    THEN /\ wfState' = "SearchFailed"
                         /\ topLevelError' = ret.error
                         /\ UNCHANGED <<candidates, foundCount>>
                    ELSE /\ wfState' = IF ret.items = <<>> THEN "SearchEmpty"
                                       ELSE "CandidatesFound"
                         /\ candidates' = ret.items
                         /\ foundCount' = Len(ret.items)
                         /\ UNCHANGED topLevelError
    /\ UNCHANGED <<session, outcomes, savedCount, cache, tasks, loggedIn, authToken, calls,
                   registryEnv, log>>

\* step 9, last bullet: announce the number found and go on to save
BeginSaving ==
    /\ wfState = "CandidatesFound"
    /\ wfState' = "Saving"
    /\ UNCHANGED <<session, candidates, outcomes, foundCount, savedCount,
                   topLevelError, cache, tasks, loggedIn, authToken, sent, calls, lastCall,
                   registryEnv, log>>

\* step 10: save_candidate_record for the next candidate, whatever the
\* earlier saves returned
SaveNext ==
    /\ wfState = "Saving"
    /\ Len(outcomes) < Len(candidates)
    /\ \E x \in Exchanges("create_record") :
         LET ref == candidates[NextIndex]
             ret == store_candidate(ref, a2a_call(x)) IN
         /\ sent' = sent \o a2a_posts(Request(DBSERVICE_AGENT_URL, "create_record", ""), x)
         /\ IF ~a2a_ends(x)
            THEN /\ wfState' = "Waiting"
                 /\ UNCHANGED <<lastCall, outcomes, savedCount>>
            ELSE /\ lastCall' = Call("store_candidate", Args(ref, "Dev", "list"), NotCached,
                                     "n/a", x, Return(ret))
                 /\ outcomes' = Append(outcomes, SaveOutcome(ref, ret))
                 /\ savedCount' = IF CountsAsSaved(ret) THEN savedCount + 1 ELSE savedCount
                 /\ UNCHANGED wfState
    /\ UNCHANGED <<session, candidates, foundCount, topLevelError, cache,
                   tasks, loggedIn, authToken, calls, registryEnv, log>>

\* step 11: after the last candidate, the final summary
Finish ==
    /\ wfState = "Saving"
    /\ Len(outcomes) = Len(candidates)
    /\ wfState' = "Complete"
    /\ UNCHANGED <<session, candidates, outcomes, foundCount, savedCount,
                   topLevelError, cache, tasks, loggedIn, authToken, sent, calls, lastCall,
                   registryEnv, log>>

InitState ==
    /\ wfState = "Init"
    /\ session = ABSENT
    /\ candidates = <<>>
    /\ outcomes = <<>>
    /\ foundCount = 0
    /\ savedCount = 0
    /\ topLevelError = NULL
    /\ cache = [n \in AgentNames |-> NotCached]
    /\ tasks = [t \in 1..MaxTasks |-> Idle]
    /\ loggedIn = FALSE
    /\ authToken = ABSENT
    /\ sent = <<>>
    /\ calls = 0
    /\ lastCall = NoCall
    /\ log = {}

\* A2A_REGISTRY_URL is not set
InitCommon == InitState /\ registryEnv = ABSENT

NextApp ==
    \/ Start
    \/ Authenticate
    \/ BeginSearch
    \/ Search
    \/ BeginSaving
    \/ SaveNext
    \/ Finish

SpecApp == InitCommon /\ [][NextApp]_vars

\* the workflow under the assumption that it goes on: the user answers the
\* agent's questions and the agent takes the next step of its instructions
\* whenever there is one
SpecAppFair == SpecApp /\ WF_vars(NextApp)

-----------------------------------------------------------------------------
(* main.py: resolve_url and the three tools, called in any order *)

MainTools == {"login_user", "search_job_candidates", "save_candidate_record"}

\* the agent name a tool resolves
AgentOf(tool) ==
    CASE tool = "login_user" -> "auth_agent"
      [] tool = "search_job_candidates" -> "webservice_agent"
      [] tool = "save_candidate_record" -> "dbservice_agent"

\* the JSON-RPC method a tool calls
MethodOf(tool) ==
    CASE tool = "login_user" -> "login"
      [] tool = "search_job_candidates" -> "search_candidates"
      [] tool = "save_candidate_record" -> "create_record"

\* save_candidate_record(name, title, skills): valid, or one argument blank,
\* or skills that is not a list
SaveArgs ==
    { Args("Ann", "Dev", "list"), Args("", "Dev", "list"), Args("Ann", "", "list"),
      Args("Ann", "Dev", "emptylist"), Args("Ann", "Dev", "str") }

\* login_user(username, password): valid, or blank
LoginArgSet == { LoginArgs("admin", "secret"), LoginArgs("", "") }

\* search_job_candidates(job_title, skills): valid, or blank; skills is a
\* comma-separated string
SearchArgs == { Args("", "Dev", "go,rust"), Args("", "", "") }

ArgsOf(tool) ==
    CASE tool = "login_user" -> LoginArgSet
      [] tool = "search_job_candidates" -> SearchArgs
      [] tool = "save_candidate_record" -> SaveArgs

\* the line make_rpc_call writes at INFO before it posts: address, method
\* and the whole params mapping
LogLine(agent_url, method, params) ==
    [to |-> agent_url, method |-> method, params |-> params]

Failed(msg) == [Obj EXCEPT !.status = "failed", !.error = msg]

main_save_validation_Mut(args) ==
    IF args.name = "" \/ args.title = "" \/ args.skills = "emptylist"
    THEN Failed("Missing required candidate information")
    ELSE Null

\* save_candidate_record, the validation before the call: the failure
\* returned, or Null when the arguments pass
main_save_validation(args) ==
    IF args.name = "" \/ args.title = "" \/ args.skills = "emptylist"
    THEN Failed("Missing required candidate information")
    ELSE IF args.skills # "list"
         THEN Failed("Skills must be provided as a list.")
         ELSE Null

\* login_user, from the outcome of resolve_url and make_rpc_call
main_login_user(rpc) ==
    IF rpc.raised
    THEN [Obj EXCEPT !.success = "false", !.error = "Login failed"]
    ELSE rpc.val

\* search_job_candidates, from the outcome of resolve_url and make_rpc_call
main_search_job_candidates(rpc) ==
    IF ~rpc.raised /\ IsList(rpc.val) THEN rpc.val ELSE List(<<>>)

\* save_candidate_record, from the outcome of resolve_url and make_rpc_call
main_save_candidate_record(rpc) ==
    IF rpc.raised
    THEN Failed("Save operation failed")
    ELSE IF IsDict(rpc.val) /\ ~Has(rpc.val, "error")
         THEN [rpc.val EXCEPT !.status = Get(rpc.val, "status", "saved")]
         ELSE IF IsDict(rpc.val) /\ Has(rpc.val, "error")
              THEN [rpc.val EXCEPT !.status = Get(rpc.val, "status", "failed")]
              ELSE rpc.val

MainToolResult(tool, rpc) ==
    CASE tool = "login_user" -> main_login_user(rpc)
      [] tool = "search_job_candidates" -> main_search_job_candidates(rpc)
      [] tool = "save_candidate_record" -> main_save_candidate_record(rpc)

resolve_url_Mut(rpc) ==
    IF rpc.raised \/ ~IsDict(rpc.val) \/ ~Has(rpc.val, "url")
    THEN Return("http://svc/a2a")
    ELSE Return(rpc.val.url)

\* resolve_url after its registry call: the card's url, or a raise
resolve_url(rpc) ==
    IF rpc.raised THEN rpc
    ELSE IF ~IsDict(rpc.val) \/ ~Has(rpc.val, "url")
         THEN Raise("RuntimeError")
         ELSE Return(rpc.val.url)

IsLoginSuccess(tool, ret) ==
    tool = "login_user" /\ IsDict(ret) /\ ret.success = "true" /\ Truthy(ret.token)

\* the tool calls in progress are interchangeable: a new call takes the
\* first free slot
FreeTask ==
    { t \in 1..MaxTasks :
        tasks[t].pc = "idle" /\ \A u \in 1..(t - 1) : tasks[u].pc # "idle" }

\* a tool is called.  save_candidate_record validates first.  Then
\* resolve_url(name) goes through lru_cache: on a miss the coroutine is
\* created, cached and started (it sends get_agent and waits); on a hit the
\* cached coroutine object comes back and awaiting it again raises
\* RuntimeError, which the tool's except clause turns into its failure value.
MainCall ==
    \E t \in FreeTask, tool \in MainTools :
    \E args \in ArgsOf(tool) :
        /\ tasks[t].pc = "idle"
        /\ calls < MaxCalls
        /\ calls' = calls + 1
        /\ IF tool = "save_candidate_record" /\ main_save_validation(args) # Null
           THEN /\ lastCall' = Call(tool, args, NotCached, "n/a", NoExchange,
                                    Return(main_save_validation(args)))
                /\ UNCHANGED <<cache, tasks, sent, log>>
           ELSE IF cache[AgentOf(tool)].co = "absent"
                THEN /\ cache' = [cache EXCEPT ![AgentOf(tool)].co = "running"]
                     /\ sent' = Append(sent, Request(REGISTRY_URL, "get_agent", AgentOf(tool)))
                     /\ log' = log \cup {LogLine(REGISTRY_URL, "get_agent",
                                                 Args(AgentOf(tool), "", ""))}
                     /\ tasks' = [tasks EXCEPT ![t] =
                                    [pc |-> "resolving", tool |-> tool, args |-> args,
                                     reg |-> NoExchange, url |-> ABSENT]]
                     /\ UNCHANGED lastCall
                ELSE /\ lastCall' = Call(tool, args, cache[AgentOf(tool)], "RAISED", NoExchange,
                                         Return(MainToolResult(tool, Raise("RuntimeError"))))
                     /\ UNCHANGED <<cache, tasks, sent, log>>
        /\ UNCHANGED <<appVars, loggedIn, authToken, registryEnv>>

\* the registry call of a waiting resolve_url ends: the coroutine finishes,
\* and the tool either fails or sends its own request to the address
MainRegistryReply ==
    \E t \in 1..MaxTasks :
    \E x \in Exchanges("get_agent") :
        LET tool == tasks[t].tool
            res == resolve_url(make_rpc_call(x)) IN
        /\ tasks[t].pc = "resolving"
        /\ IF res.raised
           THEN /\ cache' = [cache EXCEPT ![AgentOf(tool)].co = "finished"]
                /\ lastCall' = [Call(tool, tasks[t].args, NotCached, "RAISED", NoExchange,
                                     Return(MainToolResult(tool, res)))
                                  EXCEPT !.reg = x]
                /\ tasks' = [tasks EXCEPT ![t] = Idle]
                /\ UNCHANGED <<sent, log>>
           ELSE /\ cache' = [cache EXCEPT ![AgentOf(tool)] =
                                [co |-> "finished", url |-> res.val]]
                /\ sent' = Append(sent, Request(res.val, MethodOf(tool), ""))
                /\ log' = log \cup {LogLine(res.val, MethodOf(tool),
                                            tasks[t].args)}
                /\ tasks' = [tasks EXCEPT ![t].pc = "calling", ![t].reg = x,
                                           ![t].url = res.val]
                /\ UNCHANGED lastCall
        /\ UNCHANGED <<appVars, loggedIn, authToken, calls, registryEnv>>

\* the service call of a tool ends and the tool returns
MainServiceReply ==
    \E t \in { u \in 1..MaxTasks : tasks[u].pc = "calling" } :
    \E x \in MainExchanges(MethodOf(tasks[t].tool)) :
        LET tool == tasks[t].tool
            ret == MainToolResult(tool, make_rpc_call(x)) IN
        /\ tasks[t].pc = "calling"
        /\ lastCall' = [Call(tool, tasks[t].args, NotCached, tasks[t].url, x, Return(ret))
                          EXCEPT !.reg = tasks[t].reg]
        /\ loggedIn' = (loggedIn \/ IsLoginSuccess(tool, ret))
        /\ tasks' = [tasks EXCEPT ![t] = Idle]
        /\ UNCHANGED <<appVars, cache, authToken, sent, calls, registryEnv, log>>

NextMain ==
    \/ MainCall
    \/ MainRegistryReply
    \/ MainServiceReply

\* main.py starts with A2A_REGISTRY_URL set or not
InitMain == InitState /\ registryEnv \in RegistryEnvs

SpecMain == InitMain /\ [][NextMain]_vars

-----------------------------------------------------------------------------
(* hr_assistant/agent.py: the three tools over the session state; the *)
(* service addresses are the configured ones and resolve_url is not called *)

hra_login_user_Mut(rpc) ==
    IF rpc.raised THEN rpc
    ELSE IF ~IsDict(rpc.val) THEN Raise("AttributeError")
    ELSE IF Has(rpc.val, "token")
         THEN Return([Obj EXCEPT !.status = "success", !.token = rpc.val.token])
         ELSE Return([Obj EXCEPT !.status = "error",
                                 !.message = Get(rpc.val, "error", "Login failed")])

\* login_user, from the outcome of make_rpc_call
hra_login_user(rpc) ==
    IF rpc.raised THEN rpc
    ELSE IF ~IsDict(rpc.val) THEN Raise("AttributeError")
    ELSE IF Truthy(rpc.val.success)
         THEN IF Has(rpc.val, "token")
              THEN Return([Obj EXCEPT !.status = "success", !.token = rpc.val.token])
              ELSE Raise("KeyError")
         ELSE Return([Obj EXCEPT !.status = "error",
                                 !.message = Get(rpc.val, "error", "Login failed")])

\* search_job_candidates, from the outcome of make_rpc_call
hra_search_job_candidates(rpc) ==
    IF rpc.raised THEN rpc
    ELSE IF IsList(rpc.val)
         THEN Return([Obj EXCEPT !.status = "success", !.items = rpc.val.items])
         ELSE Return([Obj EXCEPT !.status = "error",
                                 !.message = "Search failed or returned no results."])

\* save_candidate_record, from the outcome of make_rpc_call
hra_save_candidate_record(rpc) ==
    IF rpc.raised THEN rpc
    ELSE IF ~IsDict(rpc.val) THEN Raise("AttributeError")
    ELSE IF rpc.val.status = "saved"
         THEN Return([Obj EXCEPT !.status = "success", !.message = "Candidate saved."])
         ELSE Return([Obj EXCEPT !.status = "error",
                                 !.message = Get(rpc.val, "error", "Save failed.")])

MustLogIn == Return([Obj EXCEPT !.status = "error", !.message = "You must log in first."])

NoAuthToken_Mut(token) == token = ABSENT

\* `if not token`, for token = tool_context.state.get("auth_token")
NoAuthToken(token) == ~Truthy(token)

HraLogin ==
    /\ calls < MaxCalls
    /\ \E x \in Exchanges("login") :
         LET ret == hra_login_user(make_rpc_call(x)) IN
         /\ sent' = Append(sent, Request(AUTH_AGENT_URL, "login", ""))
         /\ authToken' = IF ~ret.raised /\ ret.val.status = "success"
                         THEN ret.val.token ELSE authToken
         /\ lastCall' = Call("login_user", NoArgs, NotCached, "n/a", x, ret)
    /\ calls' = calls + 1
    /\ UNCHANGED <<appVars, cache, tasks, loggedIn, registryEnv, log>>

HraSearch ==
    /\ calls < MaxCalls
    /\ IF NoAuthToken(authToken)
       THEN /\ lastCall' = Call("search_job_candidates", NoArgs, NotCached, "n/a",
                                NoExchange, MustLogIn)
            /\ UNCHANGED sent
       ELSE \E x \in Exchanges("search_candidates") :
            /\ sent' = Append(sent, Request(WEBSERVICE_AGENT_URL, "search_candidates", ""))
            /\ lastCall' = Call("search_job_candidates", NoArgs, NotCached, "n/a", x,
                                hra_search_job_candidates(make_rpc_call(x)))
    /\ calls' = calls + 1
    /\ UNCHANGED <<appVars, cache, tasks, loggedIn, authToken, registryEnv, log>>

HraSave ==
    /\ calls < MaxCalls
    /\ IF NoAuthToken(authToken)
       THEN /\ lastCall' = Call("save_candidate_record", NoArgs, NotCached, "n/a",
                                NoExchange, MustLogIn)
            /\ UNCHANGED sent
       ELSE \E x \in Exchanges("create_record") :
            /\ sent' = Append(sent, Request(DBSERVICE_AGENT_URL, "create_record", ""))
            /\ lastCall' = Call("save_candidate_record", NoArgs, NotCached, "n/a", x,
                                hra_save_candidate_record(make_rpc_call(x)))
    /\ calls' = calls + 1
    /\ UNCHANGED <<appVars, cache, tasks, loggedIn, authToken, registryEnv, log>>

NextHra ==
    \/ HraLogin
    \/ HraSearch
    \/ HraSave

SpecHra == InitCommon /\ [][NextHra]_vars

-----------------------------------------------------------------------------
(* hr_recruiting_assistant/tools.py: the three tools, which raise on failure *)

\* login_user, from the outcome of _json_rpc
hrra_login_user(rpc) ==
    IF rpc.raised THEN rpc
    ELSE IF ~IsDict(rpc.val) THEN Raise("AttributeError")
    ELSE IF Truthy(rpc.val.success)
         THEN IF Has(rpc.val, "token") THEN Return(Str(rpc.val.token))
              ELSE Raise("KeyError")
         ELSE Raise("RuntimeError")

\* search_for_candidates, from the outcome of _json_rpc
hrra_search_for_candidates(rpc) == rpc

\* save_candidate_record, from the outcome of _json_rpc
hrra_save_candidate_record(rpc) ==
    IF rpc.raised THEN rpc
    ELSE IF ~IsDict(rpc.val) THEN Raise("AttributeError")
    ELSE IF rpc.val.status # "saved" THEN Raise("RuntimeError")
    ELSE Return(Str("Candidate saved."))

HrraLogin ==
    /\ calls < MaxCalls
    /\ \E x \in Exchanges("login") :
         /\ sent' = Append(sent, Request(AUTH_AGENT_URL, "login", ""))
         /\ lastCall' = Call("login_user", NoArgs, NotCached, "n/a", x,
                             hrra_login_user(json_rpc(x)))
    /\ calls' = calls + 1
    /\ UNCHANGED <<appVars, cache, tasks, loggedIn, authToken, registryEnv, log>>

HrraSearch ==
    /\ calls < MaxCalls
    /\ \E x \in Exchanges("search_candidates") :
         /\ sent' = Append(sent, Request(WEBSERVICE_AGENT_URL, "search_candidates", ""))
         /\ lastCall' = Call("search_for_candidates", NoArgs, NotCached, "n/a", x,
                             hrra_search_for_candidates(json_rpc(x)))
    /\ calls' = calls + 1
    /\ UNCHANGED <<appVars, cache, tasks, loggedIn, authToken, registryEnv, log>>

HrraSave ==
    /\ calls < MaxCalls
    /\ \E x \in Exchanges("create_record") :
         /\ sent' = Append(sent, Request(DBSERVICE_AGENT_URL, "create_record", ""))
         /\ lastCall' = Call("save_candidate_record", Args("Ann", "Dev", "list"), NotCached,
                             "n/a", x, hrra_save_candidate_record(json_rpc(x)))
    /\ calls' = calls + 1
    /\ UNCHANGED <<appVars, cache, tasks, loggedIn, authToken, registryEnv, log>>

NextHrra ==
    \/ HrraLogin
    \/ HrraSearch
    \/ HrraSave

SpecHrra == InitCommon /\ [][NextHrra]_vars

-----------------------------------------------------------------------------
(* Properties of the app/ workflow *)

SavedOutcomes == { i \in 1..Len(outcomes) : outcomes[i].status = "Saved" }

MethodsSent == { sent[i].method : i \in 1..Len(sent) }

OutcomesInSearchOrder ==
    \A i \in 1..Len(outcomes) :
        i <= Len(candidates) /\ outcomes[i].candidateRef = candidates[i]

-----------------------------------------------------------------------------
(* Properties of the tools *)

\* the exchange carried a JSON-RPC result and no error
IsRpcSuccess(x) == x.kind = "json" /\ ~x.hasError /\ x.hasResult

\* a request went out and the service answered with an empty sequence
IsEmptySearch(x) == IsRpcSuccess(x) /\ IsList(x.result) /\ x.result.items = <<>>

\* a request went out and it failed, or the result is not a sequence
IsFailedSearch(x) == x.kind # "none" /\ ~(IsRpcSuccess(x) /\ IsList(x.result))

\* the create_record result carries status "saved"
IsRemoteSaved(x) == IsRpcSuccess(x) /\ IsDict(x.result) /\ x.result.status = "saved"

\* the auth service accepted the login: success true with a non-empty token
IsAccepted(x) ==
    /\ IsRpcSuccess(x) /\ IsDict(x.result)
    /\ x.result.success = "true" /\ Truthy(x.result.token)

IsReason(e) == e \notin {ABSENT, NULL, ""}

CountSent(method, about) ==
    Cardinality({ i \in 1..Len(sent) : sent[i].method = method /\ sent[i].about = about })

\* C3 as stated, for the save tool of main.py with the saves made one
\* after another: a save that follows an earlier save is still attempted,
\* that is, every call with valid arguments made once the db service has
\* been resolved sends its own create_record request (so that saves 1 and
\* 3 of 3 can both succeed).
C3_Original ==
    ( /\ lastCall.tool = "save_candidate_record"
      /\ main_save_validation(lastCall.args) = Null
      /\ \A t \in 1..MaxTasks : tasks[t].pc = "idle"
      /\ lastCall.cached.url # ABSENT )
    => lastCall.exch.kind # "none"

\* C5 as stated, for search_job_candidates of main.py: a successful empty
\* search returns an empty sequence without error, and a failed search is
\* never returned as the same value as a successful empty one.
C5_Original ==
    lastCall.tool = "search_job_candidates" =>
        /\ IsEmptySearch(lastCall.exch) => lastCall.ret = Return(List(<<>>))
        /\ IsFailedSearch(lastCall.exch) => lastCall.ret # Return(List(<<>>))

\* C6 as stated, for save_candidate_record of hr_recruiting_assistant: the
\* call never raises, whatever the remote service does.
C6_Original ==
    lastCall.tool = "save_candidate_record" => ~lastCall.ret.raised

\* C7 as stated, for save_candidate_record of main.py: the outcome is Saved
\* only when the create_record result carries status "saved", and every
\* other outcome is Failed with a reason.
C7_Original ==
    lastCall.tool = "save_candidate_record" =>
        LET v == lastCall.ret.val IN
        IF IsDict(v) /\ v.status = "saved"
        THEN IsRemoteSaved(lastCall.exch)
        ELSE IsDict(v) /\ v.status = "failed" /\ IsReason(v.error)

\* C8 as stated, for login_user of hr_assistant/agent.py: an accepted login
\* returns the non-empty token, and a rejected login or an RPC failure
\* returns a failure value without a token.
C8_Original ==
    lastCall.tool = "login_user" =>
        /\ ~lastCall.ret.raised
        /\ IF IsAccepted(lastCall.exch)
           THEN /\ lastCall.ret.val.status = "success"
                /\ lastCall.ret.val.token = lastCall.exch.result.token
           ELSE /\ lastCall.ret.val.status = "error"
                /\ lastCall.ret.val.token = ABSENT

\* C9 as stated: a resolve of a name that was resolved before returns the
\* cached address, and exactly one get_agent request was sent for the name.
C9_Original ==
    \A n \in AgentNames :
        ( /\ lastCall.tool \in MainTools
          /\ AgentOf(lastCall.tool) = n
          /\ lastCall.cached.url # ABSENT )
        => /\ lastCall.resolved = lastCall.cached.url
           /\ CountSent("get_agent", n) = 1

\* C10 as stated: after a successful login, a later login_user call resolves
\* auth_agent from the cache and sends a login request to that address.
C10_Original ==
    ( /\ loggedIn
      /\ lastCall.tool = "login_user"
      /\ lastCall.cached.url # ABSENT )
    => /\ lastCall.resolved = lastCall.cached.url
       /\ lastCall.exch.kind # "none"

-----------------------------------------------------------------------------
(* C11: the resolver without a configured registry *)

\* the address config.py holds for an agent (required, never empty)
StaticUrlOf(name) ==
    CASE name = "auth_agent" -> AUTH_AGENT_URL
      [] name = "webservice_agent" -> WEBSERVICE_AGENT_URL
      [] name = "dbservice_agent" -> DBSERVICE_AGENT_URL

\* C11 as stated, for resolve_url of main.py: while A2A_REGISTRY_URL is not
\* set no get_agent request is sent and a resolve gives the address
\* configured for the agent; and since config.py always holds such an
\* address, no resolve fails.
C11_Original ==
    /\ registryEnv = ABSENT => "get_agent" \notin MethodsSent
    /\ ( /\ registryEnv = ABSENT
         /\ lastCall.tool \in MainTools
         /\ lastCall.resolved # "n/a" )
       => lastCall.resolved = StaticUrlOf(AgentOf(lastCall.tool))
    /\ lastCall.tool \in MainTools => lastCall.resolved # "RAISED"

-----------------------------------------------------------------------------
(* C12: a registry lookup that times out *)

\* whether a registry exchange gave an agent card with an address
IsCardWithUrl(x) == IsRpcSuccess(x) /\ IsDict(x.result) /\ Has(x.result, "url")

\* C12: when the registry lookup for auth_agent times out, login_user of
\* main.py ends with a failure that carries a reason, and no login request
\* is sent, neither by that call nor before it; a tool sends its request
\* only after the registry gave an address, and once the lookup for
\* auth_agent has ended without an address no login request is ever sent.
C12_RegistryTimeoutFailsLogin ==
    /\ ( lastCall.tool = "login_user" /\ lastCall.reg.kind = "timeout" )
       => /\ ~lastCall.ret.raised
          /\ lastCall.ret.val.success = "false"
          /\ IsReason(lastCall.ret.val.error)
          /\ lastCall.resolved = "RAISED"
          /\ lastCall.exch = NoExchange
          /\ CountSent("login", "") = 0
    /\ \A t \in 1..MaxTasks : tasks[t].pc = "calling" => IsCardWithUrl(tasks[t].reg)
    /\ ( cache["auth_agent"].co = "finished" /\ cache["auth_agent"].url = ABSENT )
       => CountSent("login", "") = 0

\* a login_user call whose registry lookup timed out has returned, after
\* other tool calls were made
C12_Witness ==
    /\ lastCall.tool = "login_user"
    /\ lastCall.reg.kind = "timeout"
    /\ lastCall.args = LoginArgs("admin", "secret")
    /\ calls >= 2

-----------------------------------------------------------------------------
(* The three JSON-RPC helpers on their own: each is applied to the response *)
(* of one request                                                           *)

RpcMethods == {"login", "search_candidates", "create_record", "get_agent"}

\* make_rpc_call of main.py and hr_assistant/agent.py
RpcMake ==
    \E m \in RpcMethods : \E x \in Exchanges(m) :
        /\ calls < MaxCalls
        /\ calls' = calls + 1
        /\ lastCall' = Call("make_rpc_call", NoArgs, NotCached, "n/a", x, make_rpc_call(x))
        /\ UNCHANGED <<appVars, cache, tasks, loggedIn, authToken, sent, registryEnv, log>>

\* a2a_call of app/tools.py and hr_assistant/tools.py
RpcA2a ==
    \E m \in RpcMethods : \E x \in Exchanges(m) :
        /\ calls < MaxCalls
        /\ calls' = calls + 1
        /\ lastCall' = Call("a2a_call", NoArgs, NotCached, "n/a", x, Return(a2a_call(x)))
        /\ UNCHANGED <<appVars, cache, tasks, loggedIn, authToken, sent, registryEnv, log>>

\* _json_rpc of hr_recruiting_assistant/tools.py
RpcJson ==
    \E m \in RpcMethods : \E x \in Exchanges(m) :
        /\ calls < MaxCalls
        /\ calls' = calls + 1
        /\ lastCall' = Call("_json_rpc", NoArgs, NotCached, "n/a", x, json_rpc(x))
        /\ UNCHANGED <<appVars, cache, tasks, loggedIn, authToken, sent, registryEnv, log>>

NextRpc ==
    \/ RpcMake
    \/ RpcA2a
    \/ RpcJson

SpecRpc == InitCommon /\ [][NextRpc]_vars

-----------------------------------------------------------------------------
(* C13: what the helpers make of a response *)

\* C13 as stated: a helper reports success only for a response that has a
\* `result` and no `error`, and then hands on that result; every other
\* response (both members, neither member, a body that is not JSON, a
\* non-2xx status, no answer) is reported as a failure: make_rpc_call and
\* _json_rpc raise, a2a_call returns an object whose `error` says why.
C13_Original ==
    lastCall.tool \in {"make_rpc_call", "a2a_call", "_json_rpc"} =>
        IF IsRpcSuccess(lastCall.exch)
        THEN lastCall.ret = Return(lastCall.exch.result)
        ELSE IF lastCall.tool = "a2a_call"
             THEN IsDict(lastCall.ret.val) /\ IsReason(lastCall.ret.val.error)
             ELSE lastCall.ret.raised

-----------------------------------------------------------------------------
(* C14: blank inputs *)

\* whether a tool call has a blank username, password, name or title, or
\* empty skills
IsBlankInput(tool, args) ==
    CASE tool = "login_user" -> args.username = "" \/ args.password = ""
      [] tool = "search_job_candidates" -> args.title = "" \/ args.skills = ""
      [] tool = "save_candidate_record" ->
            args.name = "" \/ args.title = "" \/ args.skills = "emptylist"
      [] OTHER -> FALSE

\* C14 as stated, for the tools of main.py: a call with a blank username,
\* password or title or with empty skills ends without any remote call: it
\* is never waiting for the registry or for a service, and when it has
\* returned it has exchanged nothing with either.
C14_Original ==
    /\ \A t \in 1..MaxTasks :
          tasks[t].pc # "idle" => ~IsBlankInput(tasks[t].tool, tasks[t].args)
    /\ ( lastCall.tool \in MainTools /\ IsBlankInput(lastCall.tool, lastCall.args) )
       => /\ lastCall.reg = NoExchange
          /\ lastCall.exch = NoExchange

-----------------------------------------------------------------------------
(* C15: the password *)

\* the members of a result object that hold text
TextOf(v) == {v.token, v.error, v.status, v.name, v.url, v.message}

\* C15 as stated, for main.py: no line of the log holds the password of a
\* login, and no result returned by login_user holds it.
C15_Original ==
    /\ \A l \in log : l.params.password = ""
    /\ ( lastCall.tool = "login_user" /\ lastCall.args.password # "" )
       => lastCall.args.password \notin TextOf(lastCall.ret.val)

-----------------------------------------------------------------------------
(* C16: no retries *)

\* the workflow states in which the login step has been taken
AfterLogin ==
    {"Authenticated", "AuthFailed", "Searching", "SearchFailed", "SearchEmpty",
     "CandidatesFound", "Saving", "Complete"}

\* the workflow states in which the search step has been taken
AfterSearch == {"SearchFailed", "SearchEmpty", "CandidatesFound", "Saving", "Complete"}

\* C16: nothing is retried in the app/ workflow: the authenticate step has
\* sent one login request and no more, the search step one
\* search_candidates request and no more, each save of a candidate one
\* create_record request and no more, whatever the outcome of the request,
\* and nothing else has been sent.
C16_NoRetry ==
    /\ CountSent("login", "") = (IF wfState \in AfterLogin THEN 1 ELSE 0)
    /\ CountSent("search_candidates", "") = (IF wfState \in AfterSearch THEN 1 ELSE 0)
    /\ CountSent("create_record", "") = Len(outcomes)
    /\ Len(sent) = CountSent("login", "") + CountSent("search_candidates", "")
                   + CountSent("create_record", "")

\* a run is complete in which two saves got no answer in time
C16_Witness ==
    /\ wfState = "Complete"
    /\ Len(outcomes) >= 2
    /\ lastCall.tool = "store_candidate"
    /\ lastCall.exch.kind = "timeout"
    /\ outcomes[1].status = "Failed"
    /\ outcomes[1].errorDetail = "Request timed out"

-----------------------------------------------------------------------------
(* C17: results, not exceptions *)

\* C17 as stated, for the tools of hr_assistant/agent.py: whatever the
\* remote service does, login, search and save return a structured value
\* (an object or a list) and never raise.
C17_Original ==
    lastCall.tool \in {"login_user", "search_job_candidates", "save_candidate_record"} =>
        /\ ~lastCall.ret.raised
        /\ IsDict(lastCall.ret.val) \/ IsList(lastCall.ret.val)

-----------------------------------------------------------------------------
(* C18: login before search and save *)

\* C18 as stated, for the tools of main.py called in any order: a
\* search_candidates or create_record request is sent only after a
\* login_user call has returned success, and a create_record request only
\* after a search_candidates request.
C18_Original ==
    /\ ( \E i \in 1..Len(sent) : sent[i].method \in {"search_candidates", "create_record"} )
       => loggedIn
    /\ \A i \in 1..Len(sent) :
          sent[i].method = "create_record" =>
              \E j \in 1..(i - 1) : sent[j].method = "search_candidates"

-----------------------------------------------------------------------------
(* C19: termination *)

\* the workflow states in which a run has ended
TerminalStates == {"AuthFailed", "SearchFailed", "SearchEmpty", "Complete"}

-----------------------------------------------------------------------------
(* C20: the candidates found *)

\* the positions of a returned list that hold an object
ObjectPositions(items) == { i \in 1..Len(items) : items[i] # "nondict" }

-----------------------------------------------------------------------------
(* C21: the session after a failed login *)

\* the last call was a login_user that did not log the user in
IsFailedLogin(c) ==
    /\ c.tool = "login_user"
    /\ c.exch.kind # "none"
    /\ (c.ret.raised \/ c.ret.val.status # "success")

\* C21 as stated: after a failed login attempt the session holds no usable
\* token of an earlier login, so the next search or save would be refused.
C21_Original == IsFailedLogin(lastCall) => ~Truthy(authToken)

-----------------------------------------------------------------------------
(* C22, C23: the resolver cache under concurrency and after a failed lookup *)

\* C22 as stated: a resolve that starts while another resolve of the same
\* name is still waiting for the registry does not fail: once that lookup has
\* obtained the address, both have the same address; and a resolve that finds
\* the address in the cache returns it.
C22_Original ==
    lastCall.tool \in MainTools =>
        /\ ( /\ lastCall.cached.co = "running"
             /\ cache[AgentOf(lastCall.tool)].url # ABSENT )
           => lastCall.resolved = cache[AgentOf(lastCall.tool)].url
        /\ lastCall.cached.url # ABSENT => lastCall.resolved = lastCall.cached.url

\* C23 as stated: a failed registry lookup leaves nothing in the cache, so a
\* resolve of the same name after it asks the registry again.
C23_Original ==
    ( /\ lastCall.tool \in MainTools
      /\ lastCall.cached.co = "finished"
      /\ lastCall.cached.url = ABSENT )
    => /\ lastCall.reg.kind # "none"
       /\ CountSent("get_agent", AgentOf(lastCall.tool)) >= 2

-----------------------------------------------------------------------------
(* C24: what authenticate_user makes of the login result *)

\* the login result is an object with success = true and a token member
IsGrantedLogin(x) ==
    /\ IsRpcSuccess(x) /\ IsDict(x.result)
    /\ x.result.success = "true" /\ Has(x.result, "token")

\* C24 as stated: authenticate_user returns success with the remote token for
\* every login result object that has success = true and a token, whatever
\* its other members; in every other case it returns success = false, a null
\* token and a non-null error string.
C24_Original ==
    lastCall.tool = "authenticate_user" =>
        IF IsGrantedLogin(lastCall.exch)
        THEN /\ lastCall.ret.val.success = "true"
             /\ lastCall.ret.val.token = lastCall.exch.result.token
        ELSE /\ lastCall.ret.val.success = "false"
             /\ lastCall.ret.val.token = NULL
             /\ lastCall.ret.val.error \notin {ABSENT, NULL}

-----------------------------------------------------------------------------
(* C25: search and save without a session token *)

GuardedTools == {"search_job_candidates", "save_candidate_record"}

\* C25: a search_job_candidates or save_candidate_record call made while the
\* session holds no auth_token (or an empty one) returns status "error" with
\* the message "You must log in first.", sends no request and leaves the
\* session state as it was.
C25_RefusedWithoutToken ==
    [][ ( /\ calls' = calls + 1
          /\ lastCall'.tool \in GuardedTools
          /\ authToken \in {ABSENT, ""} )
        => /\ ~lastCall'.ret.raised
           /\ lastCall'.ret.val.status = "error"
           /\ lastCall'.ret.val.message = "You must log in first."
           /\ lastCall'.exch.kind = "none"
           /\ sent' = sent
           /\ authToken' = authToken ]_vars

\* a save refused after a login that stored an empty token
C25_Witness ==
    /\ lastCall.tool = "save_candidate_record"
    /\ lastCall.ret.val.message = "You must log in first."
    /\ authToken = ""
    /\ Len(sent) = 1

-----------------------------------------------------------------------------
(* C26: who writes the session token *)

\* C26: auth_token changes only in a login_user call whose remote result
\* reports success, and then to the token of that result; every login_user
\* call with such a result stores its token; search_job_candidates and
\* save_candidate_record leave it as it is.  So the session holds no token
\* or the token of the most recent successful login.
C26_TokenOnlyFromLogin ==
    [][ /\ authToken' # authToken
           => /\ calls' = calls + 1
              /\ lastCall'.tool = "login_user"
              /\ IsGrantedLogin(lastCall'.exch)
              /\ authToken' = lastCall'.exch.result.token
        /\ ( /\ calls' = calls + 1
             /\ lastCall'.tool = "login_user"
             /\ IsGrantedLogin(lastCall'.exch) )
           => authToken' = lastCall'.exch.result.token
        /\ ( /\ calls' = calls + 1
             /\ lastCall'.tool \in GuardedTools )
           => authToken' = authToken ]_vars

\* a second successful login has replaced the token of the first and a
\* search has gone out under it
C26_Witness ==
    /\ calls = 4
    /\ Len(sent) = 4
    /\ authToken = "tok2"
    /\ lastCall.tool = "search_job_candidates"
    /\ \E i \in 1..2 : sent[i].method = "login" /\ sent[i + 1].method = "login"

-----------------------------------------------------------------------------
(* C27: a2a_call of the app/ tools *)

\* C27: a2a_call never raises.  For a response with a `result` and no `error`
\* it returns that result as it is; for every other outcome (no answer, no
\* connection, a non-2xx status, a body that is not JSON, a JSON-RPC error
\* with or without a result, neither member) it returns an object whose
\* `error` member says why.
C27_A2aCallReturnsErrorObject ==
    lastCall.tool = "a2a_call" =>
        /\ ~lastCall.ret.raised
        /\ IF IsRpcSuccess(lastCall.exch)
           THEN lastCall.ret.val = lastCall.exch.result
           ELSE /\ IsDict(lastCall.ret.val)
                /\ IsReason(lastCall.ret.val.error)

\* a response that carries both `error` and `result` came back as an error
C27_Witness ==
    /\ lastCall.tool = "a2a_call"
    /\ lastCall.exch.kind = "json"
    /\ lastCall.exch.hasError /\ lastCall.exch.hasResult
    /\ lastCall.ret.val.error = "A2A error"

-----------------------------------------------------------------------------
(* C28: save_candidate_record of main.py with unusable arguments *)

\* an empty name, title or skills, or skills that is not a list
IsInvalidSave(args) == args.name = "" \/ args.title = "" \/ args.skills # "list"

\* C28: save_candidate_record called with an empty name, title or skills, or
\* with skills that is not a list, returns {status: "failed", error: ...} at
\* once: no call in progress carries such arguments, the returned call sent
\* neither a get_agent nor a create_record request, and the step that returns
\* it sends nothing.
C28_InvalidSaveSendsNothing ==
    /\ [](\A t \in 1..MaxTasks :
            (tasks[t].pc # "idle" /\ tasks[t].tool = "save_candidate_record")
            => ~IsInvalidSave(tasks[t].args))
    /\ []( (lastCall.tool = "save_candidate_record" /\ IsInvalidSave(lastCall.args))
           => /\ ~lastCall.ret.raised
              /\ lastCall.ret.val.status = "failed"
              /\ IsReason(lastCall.ret.val.error)
              /\ lastCall.reg.kind = "none"
              /\ lastCall.exch.kind = "none" )
    /\ [][ ( /\ calls' = calls + 1
             /\ tasks' = tasks
             /\ lastCall'.tool = "save_candidate_record"
             /\ IsInvalidSave(lastCall'.args) )
           => sent' = sent /\ cache' = cache ]_vars

\* a save with skills given as a string was turned down before any lookup
\* of dbservice_agent
C28_Witness ==
    /\ lastCall.tool = "save_candidate_record"
    /\ lastCall.args.skills = "str"
    /\ lastCall.ret.val.error = "Skills must be provided as a list."
    /\ cache["dbservice_agent"].co = "absent"
    /\ Len(sent) >= 1

-----------------------------------------------------------------------------
(* app/main.py: the endpoints POST /a2a and POST /run_workflow *)

\* what a request body can carry in each member of JSONRPCRequest: jsonrpc
\* missing, a string, or a JSON number; method missing or a string; params
\* missing, null, an object that is a RecruitingWorkflowInput, an object
\* that lacks a field of it, or an array; id missing, null, a string, an
\* integer, or an object
JsonrpcValues == {ABSENT, "2.0", "1.0", "number"}

MethodValues == {ABSENT, "start_recruiting_workflow", "get_status"}

ParamsValues == {ABSENT, NULL, "valid", "incomplete", "array"}

IdValues == {ABSENT, NULL, "req-1", "int-7", "object"}

A2aRequests ==
    [jsonrpc : JsonrpcValues, method : MethodValues, params : ParamsValues, id : IdValues]

\* the body validates against JSONRPCRequest: jsonrpc and method are
\* required strings, params an optional object, id an optional int or str
IsJSONRPCRequest(req) ==
    /\ req.jsonrpc \notin {ABSENT, "number"}
    /\ req.method # ABSENT
    /\ req.params # "array"
    /\ req.id # "object"

\* the parsed model: params defaults to an empty object, id to None
JSONRPCRequest(req) ==
    [req EXCEPT !.params = IF @ = ABSENT THEN "incomplete" ELSE @,
                !.id = IF @ = ABSENT THEN NULL ELSE @]

\* RecruitingWorkflowInput.model_validate(params) does not raise
IsRecruitingWorkflowInput(params) == params = "valid"

\* a JSONResponse with a JSON-RPC error envelope as content
ErrorEnvelope(status, id, code) ==
    [status |-> status, envelope |-> TRUE, id |-> id, code |-> code, hasResult |-> FALSE]

\* an error answer of the framework: {"detail": ...} with the given status
HttpError(status) ==
    [status |-> status, envelope |-> FALSE, id |-> ABSENT, code |-> 0, hasResult |-> FALSE]

handle_a2a(rpc_req) ==
    IF rpc_req.jsonrpc # "2.0"
    THEN ErrorEnvelope(400, rpc_req.id, -32600)
    ELSE IF rpc_req.method = "start_recruiting_workflow"
         THEN IF ~IsRecruitingWorkflowInput(rpc_req.params)
              THEN ErrorEnvelope(400, rpc_req.id, -32602)
              ELSE ErrorEnvelope(501, rpc_req.id, -32601)
         ELSE ErrorEnvelope(404, rpc_req.id, -32601)

\* POST /a2a: the body is validated against the handler's parameter type
\* before the handler runs; a body that fails is answered 422
post_a2a(req) ==
    IF IsJSONRPCRequest(req) THEN handle_a2a(JSONRPCRequest(req)) ELSE HttpError(422)

\* bodies of POST /run_workflow: a RecruitingWorkflowInput or not
WorkflowBodies == {ABSENT, "valid", "incomplete", "array"}

trigger_workflow(input_data) == HttpError(501)

post_run_workflow(body) ==
    IF IsRecruitingWorkflowInput(body) THEN trigger_workflow(body) ELSE HttpError(422)

PostA2a ==
    \E req \in A2aRequests :
        /\ calls < MaxCalls
        /\ calls' = calls + 1
        /\ lastCall' = Call("/a2a", req, NotCached, "n/a", NoExchange, Return(post_a2a(req)))
        /\ UNCHANGED <<appVars, cache, tasks, loggedIn, authToken, sent, registryEnv, log>>

PostRunWorkflow ==
    \E body \in WorkflowBodies :
        /\ calls < MaxCalls
        /\ calls' = calls + 1
        /\ lastCall' = Call("/run_workflow", body, NotCached, "n/a", NoExchange,
                            Return(post_run_workflow(body)))
        /\ UNCHANGED <<appVars, cache, tasks, loggedIn, authToken, sent, registryEnv, log>>

NextEndpoints ==
    \/ PostA2a
    \/ PostRunWorkflow

SpecEndpoints == InitCommon /\ [][NextEndpoints]_vars

-----------------------------------------------------------------------------
(* C29, C30: the answers of /a2a and /run_workflow *)

\* C29 as stated: every response of /a2a is a JSON-RPC error envelope that
\* echoes the request id and carries `error` and never `result`; every
\* response of /run_workflow has status 501; and the workflow is never
\* started: no request is sent and the workflow stays where it was.
C29_Original ==
    /\ lastCall.tool = "/a2a" =>
          /\ lastCall.ret.val.envelope
          /\ lastCall.ret.val.id = (IF lastCall.args.id = ABSENT THEN NULL
                                                                 ELSE lastCall.args.id)
          /\ lastCall.ret.val.code # 0
          /\ ~lastCall.ret.val.hasResult
    /\ lastCall.tool = "/run_workflow" => lastCall.ret.val.status = 501
    /\ lastCall.tool \in {"/a2a", "/run_workflow"} => (wfState = "Init" /\ sent = <<>>)

\* C30 as stated: a jsonrpc version other than "2.0" gives -32600 whatever
\* the method and params; otherwise a method other than
\* start_recruiting_workflow gives -32601 with status 404; otherwise params
\* that are not a RecruitingWorkflowInput give -32602 with status 400 and
\* params that are one give -32601 with status 501.
C30_Original ==
    lastCall.tool = "/a2a" =>
        IF lastCall.args.jsonrpc # "2.0"
        THEN lastCall.ret.val.code = -32600
        ELSE IF lastCall.args.method # "start_recruiting_workflow"
             THEN lastCall.ret.val.code = -32601 /\ lastCall.ret.val.status = 404
             ELSE IF lastCall.args.params # "valid"
                  THEN lastCall.ret.val.code = -32602 /\ lastCall.ret.val.status = 400
                  ELSE lastCall.ret.val.code = -32601 /\ lastCall.ret.val.status = 501

====
